---- MODULE Spec2Model ----
(***************************************************************************)
(* Model of docs/docs-beta/src/components/Cards.tsx: the two function      *)
(* components Card and CardGroup, and the host framework that calls them.  *)
(*                                                                         *)
(* A React element is the record [type, props].  A ReactNode passed as     *)
(* `children` is a sequence of child nodes (a single child is a sequence   *)
(* of length one, no child the empty sequence); child nodes are opaque     *)
(* renderable values named by strings.  A JSX element with one expression  *)
(* child `<h3>{title}</h3>` carries that value itself as props.children;   *)
(* a JSX element with several children carries them as a sequence.         *)
(***************************************************************************)
EXTENDS Integers, Sequences, FiniteSets, TLC

VARIABLES output, failure

vars == <<output, failure>>

(* ---------------------------- bounds ----------------------------------- *)

\* Longest children sequence handed to a CardGroup.
MaxChildren == 2

(* ---------------------------- inputs ----------------------------------- *)

\* Two slots of the host's tree in which a component instance can be mounted.
Inst == {"a", "b"}

Titles == {"Guide", "Intro"}

Icons == {"book", ""}

\* "/guide" is a well-formed destination; the empty string and "http://["
\* are not.
Hrefs == {"/guide", "", "http://["}

WellFormedHrefs == {"/guide"}

ChildNode == {"CardA", "CardB"}

SeqsUpTo(S, n) == UNION {[1..k -> S] : k \in 0..n}

\* Body content of a Card.
CardBodies == {<<"Learn the basics">>, <<"Learn ", "the basics">>}

GroupChildren == SeqsUpTo(ChildNode, MaxChildren)

\* cols: positive, zero, negative, and a value of more than one digit.
ColsValues == {-1, 0, 2, 12}

\* interface CardProps
CardProps == [title : Titles, icon : Icons, href : Hrefs, children : CardBodies]

\* interface CardGroupProps
CardGroupProps == [cols : ColsValues, children : GroupChildren]

(* ------------------------- the components ------------------------------ *)

Digit(d) == <<"0", "1", "2", "3", "4", "5", "6", "7", "8", "9">>[d + 1]

RECURSIVE NatToString(_)
NatToString(n) ==
    IF n < 10 THEN Digit(n) ELSE NatToString(n \div 10) \o Digit(n % 10)

\* The string a template literal substitutes for an integer number: decimal
\* digits, with a leading "-" for a negative value.
NumberToString(n) == IF n < 0 THEN "-" \o NatToString(-n) ELSE NatToString(n)

\* <h3>{title}</h3>
Heading(title) == [type |-> "h3", props |-> [children |-> title]]

\* <i className={`icon-${icon}`}></i>
Icon(icon) == [type |-> "i", props |-> [className |-> "icon-" \o icon]]

\* <p>{children}</p>
Paragraph(children) == [type |-> "p", props |-> [children |-> children]]

\* <Link to={...} className=...> ... </Link>
Link(to, className, children) ==
    [type  |-> "Link",
     props |-> [to |-> to, className |-> className, children |-> children]]

\* <div className={...}>{children}</div>
Div(className, children) ==
    [type |-> "div", props |-> [className |-> className, children |-> children]]

\* Card variants, each one slip away from the source.
CardTruncatesBody(p) ==
    Link(p.href, "card",
         <<Heading(p.title), Icon(p.icon), Paragraph(SubSeq(p.children, 1, 1))>>)

CardOmitsEmptyIcon(p) ==
    Link(p.href, "card",
         <<Heading(p.title),
           [type |-> "i",
            props |-> [className |-> IF p.icon = "" THEN ""
                                     ELSE "icon-" \o p.icon]],
           Paragraph(p.children)>>)

CardCounted(p) ==
    Link(p.href,
         "card card-" \o NumberToString(
             Cardinality({j \in Inst : output[j] # [component |-> "none"]})),
         <<Heading(p.title), Icon(p.icon), Paragraph(p.children)>>)

CardClassWithIcon(p) ==
    Link(p.href, "card " \o p.icon,
         <<Heading(p.title), Icon(p.icon), Paragraph(p.children)>>)

CardDefaultsHref(p) ==
    Link(IF p.href = "" THEN "#" ELSE p.href, "card",
         <<Heading(p.title), Icon(p.icon), Paragraph(p.children)>>)

CardGlyphFirst(p) ==
    Link(p.href, "card",
         <<Icon(p.icon), Heading(p.title), Paragraph(p.children)>>)

\* const Card = ({ title, icon, href, children }) => ( <Link ...> ... </Link> )
Card(p) ==
    Link(p.href, "card",
         <<Heading(p.title), Icon(p.icon), Paragraph(p.children)>>)

\* CardGroup variants, each one slip away from the source.
CardGroupReversed(p) ==
    Div("card-group cols-" \o NumberToString(p.cols),
        [k \in 1..Len(p.children) |-> p.children[Len(p.children) + 1 - k]])

CardGroupShared(p) ==
    LET groups == {j \in Inst : output[j].component = "CardGroup"}
    IN Div("card-group cols-" \o NumberToString(p.cols),
           IF groups = {} THEN p.children
           ELSE output[CHOOSE j \in groups : TRUE].element.props.children
                    \o p.children)

\* const CardGroup = ({ cols, children }) => ( <div ...>{children}</div> )
CardGroup(p) ==
    Div("card-group cols-" \o NumberToString(p.cols), p.children)

(* ------------------------------ host ----------------------------------- *)

Unmounted == [component |-> "none"]

NoFailure == [origin |-> "none"]

Mounted(i) == output[i] # Unmounted

\* TRUE when no other instance is mounted: a render of i is then a render
\* of i alone.
Alone(i) == \A j \in Inst \ {i} : ~Mounted(j)

\* The outcomes the link primitive can have for a destination.  The primitive
\* is opaque: for a destination that is not well formed it may render or fail.
LinkOutcomes(to) == IF to \in WellFormedHrefs THEN {"ok"} ELSE {"ok", "error"}

Init ==
    /\ output = [i \in Inst |-> Unmounted]
    /\ failure = NoFailure

\* One render pass of a Card instance in slot i with props p: the host calls
\* Card, then renders the link primitive the returned element names.  Card
\* catches nothing, so a failure of the primitive reaches the host, which
\* drops the instance.
RenderCard(i, p) ==
    LET el == Card(p) IN
    \E outcome \in LinkOutcomes(el.props.to) :
        IF outcome = "ok"
        THEN /\ output' = [output EXCEPT ![i] =
                              [component |-> "Card", props |-> p,
                               element |-> el, alone |-> Alone(i)]]
             /\ UNCHANGED failure
        ELSE /\ output' = [output EXCEPT ![i] = Unmounted]
             /\ failure' = [origin |-> "Link", href |-> p.href,
                            to |-> el.props.to]

\* RenderCardGroup with a CardGroup that rejects a cols below 1.
RenderCardGroupValidating(i, p) ==
    IF p.cols < 1
    THEN /\ output' = [output EXCEPT ![i] = Unmounted]
         /\ failure' = [origin |-> "CardGroup", href |-> "", to |-> ""]
    ELSE /\ output' = [output EXCEPT ![i] =
                          [component |-> "CardGroup", props |-> p,
                           element |-> CardGroup(p), alone |-> Alone(i)]]
         /\ UNCHANGED failure

\* One render pass of a CardGroup instance in slot i with props p.
RenderCardGroup(i, p) ==
    /\ output' = [output EXCEPT ![i] =
                     [component |-> "CardGroup", props |-> p,
                      element |-> CardGroup(p), alone |-> Alone(i)]]
    /\ UNCHANGED failure

\* The parent re-renders without the instance in slot i.
Unmount(i) ==
    /\ Mounted(i)
    /\ output' = [output EXCEPT ![i] = Unmounted]
    /\ UNCHANGED failure

Next ==
    \/ \E i \in Inst, p \in CardProps : RenderCard(i, p)
    \/ \E i \in Inst, p \in CardGroupProps : RenderCardGroup(i, p)
    \/ \E i \in Inst : Unmount(i)

Spec == Init /\ [][Next]_vars

(* --------------------------- properties -------------------------------- *)

MountedAs(i, c) == output[i].component = c

\* The element tree the specification's Card example names.
GuideCard ==
    [type  |-> "Link",
     props |-> [to |-> "/guide", className |-> "card",
                children |-> << [type |-> "h3", props |-> [children |-> "Guide"]],
                                [type |-> "i", props |-> [className |-> "icon-book"]],
                                [type |-> "p",
                                 props |-> [children |-> <<"Learn the basics">>]] >>]]

\* C1: every Card render returns one root element, the link primitive, whose
\* destination is href unchanged, and which contains a heading whose only
\* content is title and a paragraph whose only content is children.
CardRendersLink ==
    \A i \in Inst : MountedAs(i, "Card") =>
        LET el == output[i].element
            p  == output[i].props
            kids == el.props.children
        IN /\ el.type = "Link"
           /\ el.props.to = p.href
           /\ \E k \in DOMAIN kids :
                  kids[k] = [type |-> "h3", props |-> [children |-> p.title]]
           /\ \E k \in DOMAIN kids :
                  kids[k] = [type |-> "p", props |-> [children |-> p.children]]

\* C1 witness: the specification's example has been rendered.
CardRendersLinkWitness ==
    \E i \in Inst :
        /\ MountedAs(i, "Card")
        /\ output[i].props = [title |-> "Guide", icon |-> "book",
                              href |-> "/guide",
                              children |-> <<"Learn the basics">>]
        /\ output[i].element = GuideCard

\* C2: every CardGroup render returns one div whose class is
\* "card-group cols-" followed by cols and whose children are exactly the
\* input children: same length, same element at every position.
GroupKeepsChildren ==
    \A i \in Inst : MountedAs(i, "CardGroup") =>
        LET el == output[i].element
            p  == output[i].props
        IN /\ el.type = "div"
           /\ DOMAIN el.props = {"className", "children"}
           /\ el.props.className = "card-group cols-" \o ToString(p.cols)
           /\ Len(el.props.children) = Len(p.children)
           /\ \A k \in 1..Len(p.children) : el.props.children[k] = p.children[k]

\* C2 witness: a group of two distinct children in order, and an empty group.
GroupKeepsChildrenWitness ==
    /\ MountedAs("a", "CardGroup")
    /\ output["a"].props = [cols |-> 2, children |-> <<"CardA", "CardB">>]
    /\ output["a"].element =
           [type |-> "div",
            props |-> [className |-> "card-group cols-2",
                       children |-> <<"CardA", "CardB">>]]
    /\ MountedAs("b", "CardGroup")
    /\ output["b"].props.children = << >>
    /\ output["b"].element.props.children = << >>

GlyphOf(i) == output[i].element.props.children[2]

\* C3: the class of the glyph element is "icon-" followed by icon, for every
\* icon including the empty string, and two Cards with the same icon have the
\* same glyph class whatever their other props.
GlyphClassFromIcon ==
    /\ \A i \in Inst : MountedAs(i, "Card") =>
           /\ GlyphOf(i).type = "i"
           /\ GlyphOf(i).props.className = "icon-" \o output[i].props.icon
           /\ (output[i].props.icon = "" => GlyphOf(i).props.className = "icon-")
           /\ (output[i].props.icon = "book"
                   => GlyphOf(i).props.className = "icon-book")
    /\ \A i, j \in Inst :
           /\ MountedAs(i, "Card")
           /\ MountedAs(j, "Card")
           /\ output[i].props.icon = output[j].props.icon
           => GlyphOf(i).props.className = GlyphOf(j).props.className

\* C3 witness: two Cards with the empty icon that differ in title, href and
\* children.
GlyphClassFromIconWitness ==
    /\ MountedAs("a", "Card")
    /\ MountedAs("b", "Card")
    /\ output["a"].props.icon = ""
    /\ output["b"].props.icon = ""
    /\ output["a"].props.title # output["b"].props.title
    /\ output["a"].props.href # output["b"].props.href
    /\ output["a"].props.children # output["b"].props.children
    /\ GlyphOf("a").props.className = "icon-"

SameCall(x, y) ==
    /\ x # Unmounted
    /\ y # Unmounted
    /\ x.component = y.component
    /\ x.props = y.props

ClassesOf(el) ==
    LET own(e) == IF "className" \in DOMAIN e.props
                  THEN {e.props.className} ELSE {}
    IN IF el.type = "Link"
       THEN own(el) \cup UNION {own(el.props.children[k]) :
                                    k \in DOMAIN el.props.children}
       ELSE own(el)

\* C5: the class of the link a Card returns is exactly "card", and every
\* class either component emits is "card", "icon-<icon>" or
\* "card-group cols-<cols>" for the icon or cols it was given.
StableClasses ==
    \A i \in Inst :
        /\ MountedAs(i, "Card") =>
               /\ output[i].element.props.className = "card"
               /\ ClassesOf(output[i].element)
                      = {"card", "icon-" \o output[i].props.icon}
        /\ MountedAs(i, "CardGroup") =>
               ClassesOf(output[i].element)
                   = {"card-group cols-" \o ToString(output[i].props.cols)}

\* C5 witness: a Card and a CardGroup are mounted together and their classes
\* are the three of the contract.
StableClassesWitness ==
    /\ MountedAs("a", "Card")
    /\ MountedAs("b", "CardGroup")
    /\ ClassesOf(output["a"].element) = {"card", "icon-book"}
    /\ ClassesOf(output["b"].element) = {"card-group cols-12"}

\* C6: for cols zero and cols negative CardGroup still returns the div, with
\* the class spelling that very number ("cols-0", "cols--1") and with the
\* children unchanged; a step that renders a CardGroup reports no failure,
\* and no failure ever names CardGroup as its origin.
ColsNotValidated ==
    /\ [](\A i \in Inst :
             MountedAs(i, "CardGroup") /\ output[i].props.cols <= 0 =>
                 LET el == output[i].element
                     p  == output[i].props
                 IN /\ el.type = "div"
                    /\ (p.cols = 0 => el.props.className = "card-group cols-0")
                    /\ (p.cols = -1 => el.props.className = "card-group cols--1")
                    /\ el.props.children = p.children)
    /\ [](failure.origin # "CardGroup")
    /\ [][\A i \in Inst :
             output'[i] # output[i] /\ output'[i].component = "CardGroup"
                 => failure' = failure]_vars

\* C6 witness: groups with cols 0 and cols -1 are mounted, children kept.
ColsNotValidatedWitness ==
    /\ MountedAs("a", "CardGroup")
    /\ MountedAs("b", "CardGroup")
    /\ output["a"].props = [cols |-> 0, children |-> <<"CardB", "CardA">>]
    /\ output["a"].element.props.className = "card-group cols-0"
    /\ output["a"].element.props.children = <<"CardB", "CardA">>
    /\ output["b"].props.cols = -1
    /\ output["b"].element.props.className = "card-group cols--1"

\* C7: Card hands href to the link primitive unmodified for every href, the
\* empty and the malformed included, and returns the link element for each;
\* a failure the host sees comes from the link primitive and carries the
\* href the caller passed.
HrefNotValidated ==
    /\ \A i \in Inst : MountedAs(i, "Card") =>
           /\ output[i].element.type = "Link"
           /\ output[i].element.props.to = output[i].props.href
    /\ failure # NoFailure =>
           /\ failure.origin = "Link"
           /\ failure.to = failure.href
           /\ failure.href \in Hrefs

\* C7 witness: the link primitive failed on the empty href, and a Card with
\* the malformed href is mounted with that href as its destination.
HrefNotValidatedWitness ==
    /\ failure = [origin |-> "Link", href |-> "", to |-> ""]
    /\ \E i \in Inst :
           /\ MountedAs(i, "Card")
           /\ output[i].props.href = "http://["
           /\ output[i].element.props.to = "http://["

CardLayout ==
    \A i \in Inst : MountedAs(i, "Card") =>
        LET el == output[i].element
            p  == output[i].props
            kids == el.props.children
        IN /\ DOMAIN el.props = {"to", "className", "children"}
           /\ Len(kids) = 3
           /\ <<kids[1].type, kids[2].type, kids[3].type>> = <<"h3", "i", "p">>
           /\ DOMAIN kids[1].props = {"children"}
           /\ kids[1].props.children = p.title
           /\ DOMAIN kids[2].props = {"className"}
           /\ DOMAIN kids[3].props = {"children"}
           /\ kids[3].props.children = p.children

\* C9 witness: a Card with a two-node body is mounted.
CardLayoutWitness ==
    \E i \in Inst :
        /\ MountedAs(i, "Card")
        /\ output[i].props.title = "Intro"
        /\ output[i].props.children = <<"Learn ", "the basics">>
        /\ output[i].element.props.children[1].props.children = "Intro"
        /\ output[i].element.props.children[3].props.children
               = <<"Learn ", "the basics">>

====
